---------------------------- MODULE Spec2Model ----------------------------
(***************************************************************************)
(* A model of the ATM simulator's account/ledger engine                    *)
(* (src/enhanced_atm.py): Account, SecurityManager, DatabaseManager,       *)
(* ATMSession, EnhancedATMSystem and the session-scoped menu operations.   *)
(*                                                                         *)
(* Money is a Python float in the source.  The model keeps whole-dollar    *)
(* amounts as integers and adds the one float value that defeats the       *)
(* source's comparisons, NaN (float(input()) accepts "nan"): every         *)
(* arithmetic operation and comparison on money goes through the F...      *)
(* operators below, which follow IEEE-754 for NaN.  Rounding and the       *)
(* infinities are not modelled.                                            *)
(*                                                                         *)
(* Time is one clock, `now`, in seconds; datetime.now() is now and         *)
(* date.today() is Today(now).  The clock never runs backwards.            *)
(***************************************************************************)
EXTENDS Integers, Sequences, FiniteSets, TLC

VARIABLES
    now,              \* the wall clock, in seconds
    acct,             \* one object used on its own: an Account, a BankUser
    last,             \* what the last operation was given and returned
    db_users,         \* DatabaseManager.data["users"]: user_id -> record
    db_transactions,  \* DatabaseManager.data["transactions"]: a sequence
    sessions,         \* EnhancedATMSystem.sessions: user_id -> ATMSession
    failed_attempts,  \* SecurityManager.failed_attempts: user_id -> <<n, t>>
    taken,            \* ghost: per account, what was taken out on which day
    streak,           \* ghost: per user, the run of failed authentications
    ops               \* ghost: how many operations have run

vars == <<now, acct, last, db_users, db_transactions, sessions,
          failed_attempts, taken, streak, ops>>

-----------------------------------------------------------------------------
(* Bounds of the model. *)

MaxDay == 1
MaxBalance == 600

(* Program constants. *)

SecondsPerDay == 86400

-----------------------------------------------------------------------------
(* Python floats: whole numbers and NaN. *)

NaN == -1000000

IsNaN(x) == x = NaN

FAdd(a, b) == IF IsNaN(a) \/ IsNaN(b) THEN NaN ELSE a + b

FSub(a, b) == IF IsNaN(a) \/ IsNaN(b) THEN NaN ELSE a - b

FLe(a, b) == ~IsNaN(a) /\ ~IsNaN(b) /\ a <= b

FLt(a, b) == ~IsNaN(a) /\ ~IsNaN(b) /\ a < b

FGt(a, b) == ~IsNaN(a) /\ ~IsNaN(b) /\ a > b

FGe(a, b) == ~IsNaN(a) /\ ~IsNaN(b) /\ a >= b

FEq(a, b) == ~IsNaN(a) /\ ~IsNaN(b) /\ a = b

(* date.today() *)
Today(t) == t \div SecondsPerDay

-----------------------------------------------------------------------------
(* class Account *)

(* class AccountType(Enum): the members, and each member's value *)
AccountTypes == {"CHECKING", "SAVINGS", "PREMIUM"}

EnumValue(member) ==
    CASE member = "CHECKING" -> "checking"
      [] member = "SAVINGS"  -> "savings"
      [] member = "PREMIUM"  -> "premium"

(* AccountType(value) *)
EnumMember(value) ==
    CHOOSE member \in AccountTypes : EnumValue(member) = value

OverdraftLimit(type) ==
    CASE type = "CHECKING" -> 100
      [] type = "SAVINGS"  -> 0
      [] type = "PREMIUM"  -> 500
      [] OTHER             -> 0

DailyLimit(type) ==
    CASE type = "CHECKING" -> 500
      [] type = "SAVINGS"  -> 300
      [] type = "PREMIUM"  -> 1000
      [] OTHER             -> 500

(* Account.__init__ *)
NewAccount(account_id, type, balance, today) ==
    [account_id      |-> account_id,
     account_type    |-> type,
     balance         |-> balance,
     daily_withdrawn |-> 0,
     last_reset_date |-> today]

(* Mutant: the reset happens on every call, also within the day. *)
ResetDailyLimitAlways(a, today) ==
    [a EXCEPT !.daily_withdrawn = 0, !.last_reset_date = today]

(* Account.reset_daily_limit_if_needed *)
ResetDailyLimitIfNeeded(a, today) ==
    IF today > a.last_reset_date
    THEN [a EXCEPT !.daily_withdrawn = 0, !.last_reset_date = today]
    ELSE a

(* Mutant: the funds are checked before the daily limit. *)
WithdrawMessageFundsFirst(a, amount) ==
    IF FLe(amount, 0) THEN "Invalid amount"
    ELSE IF FGt(amount, FAdd(a.balance, OverdraftLimit(a.account_type)))
    THEN "Insufficient funds"
    ELSE IF FGt(FAdd(a.daily_withdrawn, amount), DailyLimit(a.account_type))
    THEN "Daily withdrawal limit exceeded"
    ELSE "OK"

(* The three checks of Account.can_withdraw, in the code's order, on the
   account as it is after the reset. *)
WithdrawMessage(a, amount) ==
    IF FLe(amount, 0) THEN "Invalid amount"
    ELSE IF FGt(FAdd(a.daily_withdrawn, amount), DailyLimit(a.account_type))
    THEN "Daily withdrawal limit exceeded"
    ELSE IF FGt(amount, FAdd(a.balance, OverdraftLimit(a.account_type)))
    THEN "Insufficient funds"
    ELSE "OK"

(* Mutant: can_withdraw without its reset. *)
CanWithdrawNoReset(a, amount, today) ==
    LET m == WithdrawMessage(a, amount)
    IN  [acct |-> a, ok |-> (m = "OK"), msg |-> m]

(* Account.can_withdraw: the account after the call, and what it returns. *)
CanWithdraw(a, amount, today) ==
    LET r == ResetDailyLimitIfNeeded(a, today)
        m == WithdrawMessage(r, amount)
    IN  [acct |-> r, ok |-> (m = "OK"), msg |-> m]

(* Account.withdraw *)
Withdraw(a, amount, today) ==
    LET c == CanWithdraw(a, amount, today)
    IN  IF c.ok
        THEN [acct |-> [c.acct EXCEPT
                          !.balance = FSub(@, amount),
                          !.daily_withdrawn = FAdd(@, amount)],
              ok |-> TRUE]
        ELSE [acct |-> c.acct, ok |-> FALSE]

(* Mutant: deposit without its check of the amount. *)
DepositUnchecked(a, amount) ==
    [acct |-> [a EXCEPT !.balance = FAdd(@, amount)], ok |-> TRUE]

(* Account.deposit *)
Deposit(a, amount) ==
    IF FGt(amount, 0)
    THEN [acct |-> [a EXCEPT !.balance = FAdd(@, amount)], ok |-> TRUE]
    ELSE [acct |-> a, ok |-> FALSE]


-----------------------------------------------------------------------------
(* SpecAccount: one Account object and direct calls of its methods, with any
   amount, while the clock advances. *)

AccountAmounts == {NaN, -50, 0, 50, 100, 500, 2000}

AccountTickSteps == {SecondsPerDay \div 2, SecondsPerDay}

(* The values the other specifications' variables keep here. *)
NoBank ==
    /\ db_users = <<>>
    /\ db_transactions = <<>>
    /\ sessions = <<>>
    /\ failed_attempts = <<>>
    /\ taken = <<>>
    /\ streak = <<>>
    /\ ops = 0

InitAccount ==
    /\ now = 0
    /\ \E type \in AccountTypes :
         \E balance \in {-OverdraftLimit(type), 0, 500} :
            acct = NewAccount(<<1, EnumValue(type)>>, type, balance, Today(0))
    /\ last = [op |-> "new", amount |-> 0, ok |-> TRUE, msg |-> "",
               reset |-> FALSE]
    /\ NoBank

AcctDeposit(amount) ==
    LET r == Deposit(acct, amount)
    IN  /\ r.ok => FLe(r.acct.balance, MaxBalance) \/ IsNaN(r.acct.balance)
        /\ acct' = r.acct
        /\ last' = [op |-> "deposit", amount |-> amount, ok |-> r.ok,
                    msg |-> "",
                    reset |-> FALSE]
        /\ UNCHANGED <<now, db_users, db_transactions, sessions,
                       failed_attempts, taken, streak, ops>>

AcctCanWithdraw(amount) ==
    LET r == CanWithdraw(acct, amount, Today(now))
    IN  /\ acct' = r.acct
        /\ last' = [op |-> "can_withdraw", amount |-> amount, ok |-> r.ok,
                    msg |-> r.msg,
                    reset |-> r.acct.last_reset_date # acct.last_reset_date]
        /\ UNCHANGED <<now, db_users, db_transactions, sessions,
                       failed_attempts, taken, streak, ops>>

AcctWithdraw(amount) ==
    LET r == Withdraw(acct, amount, Today(now))
    IN  /\ acct' = r.acct
        /\ last' = [op |-> "withdraw", amount |-> amount, ok |-> r.ok,
                    msg |-> "",
                    reset |-> r.acct.last_reset_date # acct.last_reset_date]
        /\ UNCHANGED <<now, db_users, db_transactions, sessions,
                       failed_attempts, taken, streak, ops>>

AcctTick(d) ==
    /\ Today(now + d) <= MaxDay
    /\ now' = now + d
    /\ last' = [op |-> "tick", amount |-> 0, ok |-> TRUE, msg |-> "",
                reset |-> FALSE]
    /\ UNCHANGED <<acct, db_users, db_transactions, sessions,
                   failed_attempts, taken, streak, ops>>

NextAccount ==
    \/ \E amount \in AccountAmounts : AcctDeposit(amount)
    \/ \E amount \in AccountAmounts : AcctCanWithdraw(amount)
    \/ \E amount \in AccountAmounts : AcctWithdraw(amount)
    \/ \E d \in AccountTickSteps : AcctTick(d)

SpecAccount == InitAccount /\ [][NextAccount]_vars

-----------------------------------------------------------------------------
(* Finite maps (Python dicts). *)

Put(f, k, v) == [x \in DOMAIN f \cup {k} |-> IF x = k THEN v ELSE f[x]]

Remove(f, k) == [x \in DOMAIN f \ {k} |-> f[x]]

-----------------------------------------------------------------------------
(* class SecurityManager *)

MaxAttempts == 3
LockoutDuration == 300

(* hash_password: SHA-256 of password + salt, taken to be free of collisions *)
HashPassword(password) == <<"sha256", password, "atm_security_salt_2023">>

(* Mutant: every password verifies. *)
VerifyPasswordAlways(password, hashed) == TRUE

(* verify_password *)
VerifyPassword(password, hashed) == HashPassword(password) = hashed

(* timedelta.seconds of (t - since): the seconds within the day, the whole
   days being held in timedelta.days *)
TimedeltaSeconds(t, since) == (t - since) % SecondsPerDay

(* Mutant: the lockout starts one failure too late. *)
CheckLockoutLate(fa, user_id, t) ==
    IF user_id \in DOMAIN fa /\ fa[user_id].attempts > MaxAttempts
    THEN IF TimedeltaSeconds(t, fa[user_id].last_attempt) < LockoutDuration
         THEN [locked |-> TRUE, fa |-> fa]
         ELSE [locked |-> FALSE, fa |-> Remove(fa, user_id)]
    ELSE [locked |-> FALSE, fa |-> fa]

(* Mutant: an attempt made during the lockout restarts the window. *)
CheckLockoutExtends(fa, user_id, t) ==
    IF user_id \in DOMAIN fa /\ fa[user_id].attempts >= MaxAttempts
    THEN IF TimedeltaSeconds(t, fa[user_id].last_attempt) < LockoutDuration
         THEN [locked |-> TRUE,
               fa |-> [fa EXCEPT ![user_id].last_attempt = t]]
         ELSE [locked |-> FALSE, fa |-> Remove(fa, user_id)]
    ELSE [locked |-> FALSE, fa |-> fa]

(* check_lockout: what it returns, and failed_attempts after the call *)
CheckLockout(fa, user_id, t) ==
    IF user_id \in DOMAIN fa /\ fa[user_id].attempts >= MaxAttempts
    THEN IF TimedeltaSeconds(t, fa[user_id].last_attempt) < LockoutDuration
         THEN [locked |-> TRUE, fa |-> fa]
         ELSE [locked |-> FALSE, fa |-> Remove(fa, user_id)]
    ELSE [locked |-> FALSE, fa |-> fa]

(* record_failed_attempt *)
RecordFailedAttempt(fa, user_id, t) ==
    IF user_id \in DOMAIN fa
    THEN Put(fa, user_id, [attempts |-> fa[user_id].attempts + 1,
                           last_attempt |-> t])
    ELSE Put(fa, user_id, [attempts |-> 1, last_attempt |-> t])

(* clear_failed_attempts *)
ClearFailedAttempts(fa, user_id) ==
    IF user_id \in DOMAIN fa THEN Remove(fa, user_id) ELSE fa

-----------------------------------------------------------------------------
(* class EnhancedUser.  The name, e-mail, phone, creation and last-login
   fields are left out: no operation modelled here reads them. *)

(* EnhancedUser.__init__ *)
NewUser(user_id, pin, password) ==
    [user_id       |-> user_id,
     pin           |-> pin,
     password_hash |-> HashPassword(password),
     accounts      |-> <<>>]

(* EnhancedUser.add_account *)
AddAccount(user, type, initial_balance, today) ==
    [user EXCEPT !.accounts =
        Put(@, type, NewAccount(<<user.user_id, EnumValue(type)>>, type,
                                initial_balance, today))]

(* Replace one account of a user by its new state. *)
WithAccount(user, type, a) == [user EXCEPT !.accounts = Put(@, type, a)]

-----------------------------------------------------------------------------
(* class DatabaseManager.  db_users and db_transactions are self.data, the
   store that load_user and get_user_transactions read. *)

(* date.isoformat / datetime.isoformat, and fromisoformat *)
IsoFormat(t) == <<"iso", t>>

FromIsoFormat(text) == text[2]

(* The record save_user builds for a user. *)
UserData(user) ==
    [user_id       |-> user.user_id,
     pin           |-> user.pin,
     password_hash |-> user.password_hash,
     accounts      |->
        [v \in {EnumValue(type) : type \in DOMAIN user.accounts} |->
            LET a == user.accounts[EnumMember(v)]
            IN  [account_id      |-> a.account_id,
                 balance         |-> a.balance,
                 daily_withdrawn |-> a.daily_withdrawn,
                 last_reset_date |-> IsoFormat(a.last_reset_date)]]]

(* save_user *)
SaveUser(users, user) == Put(users, user.user_id, UserData(user))

(* Mutant: load_user that leaves daily_withdrawn as Account.__init__ set
   it. *)
LoadUserFresh(users, user_id, today) ==
    LET d == users[user_id]
    IN  [user_id       |-> d.user_id,
         pin           |-> d.pin,
         password_hash |-> d.password_hash,
         accounts      |->
            [type \in {EnumMember(v) : v \in DOMAIN d.accounts} |->
                LET ad == d.accounts[EnumValue(type)]
                IN  [NewAccount(ad.account_id, type, ad.balance, today)
                        EXCEPT !.last_reset_date =
                                   FromIsoFormat(ad.last_reset_date)]]]

(* load_user, for a user_id that is stored *)
LoadUser(users, user_id, today) ==
    LET d == users[user_id]
    IN  [user_id       |-> d.user_id,
         pin           |-> d.pin,
         password_hash |-> d.password_hash,
         accounts      |->
            [type \in {EnumMember(v) : v \in DOMAIN d.accounts} |->
                LET ad == d.accounts[EnumValue(type)]
                IN  [NewAccount(ad.account_id, type, ad.balance, today)
                        EXCEPT !.daily_withdrawn = ad.daily_withdrawn,
                               !.last_reset_date =
                                   FromIsoFormat(ad.last_reset_date)]]]

(* class TransactionType(Enum): the members, and each member's value *)
TransactionTypes ==
    {"DEPOSIT", "WITHDRAWAL", "TRANSFER", "BALANCE_INQUIRY", "PIN_CHANGE"}

TransactionTypeValue(member) ==
    CASE member = "DEPOSIT"         -> "deposit"
      [] member = "WITHDRAWAL"      -> "withdrawal"
      [] member = "TRANSFER"        -> "transfer"
      [] member = "BALANCE_INQUIRY" -> "balance_inquiry"
      [] member = "PIN_CHANGE"      -> "pin_change"

(* TransactionType(value) *)
TransactionTypeMember(value) ==
    CHOOSE member \in TransactionTypes : TransactionTypeValue(member) = value

(* The record save_transaction appends for a Transaction. *)
TransactionData(tx) ==
    [transaction_id   |-> tx.transaction_id,
     user_id          |-> tx.user_id,
     transaction_type |-> TransactionTypeValue(tx.transaction_type),
     amount           |-> tx.amount,
     balance_after    |-> tx.balance_after,
     timestamp        |-> IsoFormat(tx.timestamp),
     to_user          |-> tx.to_user]

(* Mutant: the record is appended twice. *)
SaveTransactionTwice(transactions, tx) ==
    Append(Append(transactions, TransactionData(tx)), TransactionData(tx))

(* Mutant: the new record goes in front. *)
SaveTransactionInFront(transactions, tx) ==
    <<TransactionData(tx)>> \o transactions

(* save_transaction *)
SaveTransaction(transactions, tx) == Append(transactions, TransactionData(tx))

(* The Transaction that get_user_transactions builds from a stored record. *)
TransactionOf(d) ==
    [transaction_id   |-> d.transaction_id,
     user_id          |-> d.user_id,
     transaction_type |-> TransactionTypeMember(d.transaction_type),
     amount           |-> d.amount,
     balance_after    |-> d.balance_after,
     timestamp        |-> FromIsoFormat(d.timestamp),
     to_user          |-> d.to_user]

(* The records of a user, in the order they are stored. *)
RECURSIVE UserTransactions(_, _)
UserTransactions(transactions, user_id) ==
    IF transactions = <<>> THEN <<>>
    ELSE LET rest == UserTransactions(Tail(transactions), user_id)
             d == Head(transactions)
         IN  IF d.user_id = user_id THEN <<TransactionOf(d)>> \o rest
             ELSE rest

(* Mutant: the sort is ascending. *)
RECURSIVE InsertAscending(_, _)
InsertAscending(sorted, x) ==
    IF sorted = <<>> THEN <<x>>
    ELSE IF Head(sorted).timestamp <= x.timestamp
         THEN <<Head(sorted)>> \o InsertAscending(Tail(sorted), x)
         ELSE <<x>> \o sorted

(* One step of a stable descending sort: x goes behind every element whose
   timestamp is at least its own. *)
RECURSIVE InsertDescending(_, _)
InsertDescending(sorted, x) ==
    IF sorted = <<>> THEN <<x>>
    ELSE IF Head(sorted).timestamp >= x.timestamp
         THEN <<Head(sorted)>> \o InsertDescending(Tail(sorted), x)
         ELSE <<x>> \o sorted

(* sorted(seq, key=timestamp, reverse=True): Python's sort is stable, and
   with reverse=True it keeps equal keys in their original order. *)
RECURSIVE SortedByTimestampDescending(_)
SortedByTimestampDescending(seq) ==
    IF seq = <<>> THEN <<>>
    ELSE InsertDescending(
            SortedByTimestampDescending(SubSeq(seq, 1, Len(seq) - 1)),
            seq[Len(seq)])

(* seq[:limit] *)
SliceTo(seq, limit) ==
    IF limit >= 0
    THEN SubSeq(seq, 1, IF limit < Len(seq) THEN limit ELSE Len(seq))
    ELSE SubSeq(seq, 1, IF Len(seq) + limit > 0 THEN Len(seq) + limit ELSE 0)

(* get_user_transactions *)
GetUserTransactions(transactions, user_id, limit) ==
    SliceTo(SortedByTimestampDescending(
                UserTransactions(transactions, user_id)), limit)

-----------------------------------------------------------------------------
(* class ATMSession *)

SessionTimeout == 300

NoUser == 0

(* ATMSession.__init__ *)
NewSession(user, t) == [user |-> user, session_start |-> t, active |-> TRUE]

(* is_session_valid: what it returns, and the session after the call *)
IsSessionValid(s, t) ==
    IF ~s.active THEN [valid |-> FALSE, session |-> s]
    ELSE IF TimedeltaSeconds(t, s.session_start) > SessionTimeout
    THEN [valid |-> FALSE, session |-> [s EXCEPT !.active = FALSE]]
    ELSE [valid |-> TRUE, session |-> s]

(* extend_session *)
ExtendSession(s, t) == [s EXCEPT !.session_start = t]

(* Mutant: balance_after is taken from the Savings account when there is
   one. *)
CreateTransactionOfSavings(user, type, amount, to_user, t) ==
    [transaction_id   |-> <<user.user_id, t>>,
     user_id          |-> user.user_id,
     transaction_type |-> type,
     amount           |-> amount,
     balance_after    |-> IF "SAVINGS" \in DOMAIN user.accounts
                          THEN user.accounts["SAVINGS"].balance
                          ELSE user.accounts["CHECKING"].balance,
     timestamp        |-> t,
     to_user          |-> to_user]

(* The Transaction that create_transaction builds for the session's user. *)
CreateTransaction(user, type, amount, to_user, t) ==
    [transaction_id   |-> <<user.user_id, t>>,
     user_id          |-> user.user_id,
     transaction_type |-> type,
     amount           |-> amount,
     balance_after    |-> IF "CHECKING" \in DOMAIN user.accounts
                          THEN user.accounts["CHECKING"].balance ELSE 0,
     timestamp        |-> t,
     to_user          |-> to_user]

(* The tail of one turn of user_menu's loop: extend_session, then the loop's
   test of is_session_valid. *)
MenuLoop(s, t) == IsSessionValid(ExtendSession(s, t), t).session

(* select_account: the only account when there is one, else the chosen one,
   else none *)
SelectAccount(user, choice) ==
    IF Cardinality(DOMAIN user.accounts) = 1
    THEN CHOOSE type \in DOMAIN user.accounts : TRUE
    ELSE IF choice \in DOMAIN user.accounts THEN choice ELSE "NONE"

-----------------------------------------------------------------------------
(* class EnhancedATMSystem and the menu operations: the inputs. *)

MaxUsers == 2
MaxOps == 5

UserIds == 1 .. MaxUsers

(* A user_id that is never registered. *)
UnknownUser == MaxUsers + 1

Digits == {"0", "1", "2", "3", "4", "5", "6", "7", "8", "9"}

GoodPin == <<"1", "2", "3", "4">>

GoodPassword == <<"s", "e", "c", "r", "e", "t", "1">>

Pins == {GoodPin, <<"1", "2", "3">>}

Passwords == {GoodPassword, <<"s", "h", "o", "r", "t">>}

BankAmounts == {NaN, 0, 100, 500}

(* Mutant: a PIN of any length passes. *)
IsValidPinAnyLength(pin) == \A i \in 1 .. Len(pin) : pin[i] \in Digits

(* len(pin) == 4 and pin.isdigit() *)
IsValidPin(pin) == Len(pin) = 4 /\ \A i \in 1 .. Len(pin) : pin[i] \in Digits

(* Mutant: a password needs 7 characters. *)
IsValidPasswordLong(password) == Len(password) >= 7

(* len(password) >= 6 *)
IsValidPassword(password) == Len(password) >= 6

(* ghost: amount is taken out of account <<user_id, type>> on day today *)
TakeOut(tk, user_id, type, amount, today) ==
    LET k == <<user_id, type>>
    IN  IF k \in DOMAIN tk /\ tk[k].day = today
        THEN Put(tk, k, [day |-> today, total |-> FAdd(tk[k].total, amount)])
        ELSE Put(tk, k, [day |-> today, total |-> amount])

(* ghost: the run of failed authentications of a user, which starts over
   once three failures are LockoutDuration seconds old *)
StreakOf(st, user_id, t) ==
    IF user_id \in DOMAIN st
       /\ ~(st[user_id].n >= MaxAttempts
            /\ t - st[user_id].t >= LockoutDuration)
    THEN st[user_id]
    ELSE [n |-> 0, t |-> 0]

Init ==
    /\ now = 0
    /\ acct = <<>>
    /\ last = [op |-> "new", outcome |-> "done"]
    /\ db_users = <<>>
    /\ db_transactions = <<>>
    /\ sessions = <<>>
    /\ failed_attempts = <<>>
    /\ taken = <<>>
    /\ streak = <<>>
    /\ ops = 0

(* One more operation runs, of at most max. *)
Step(max) ==
    /\ ops < max
    /\ ops' = ops + 1

(* Mutant: the number of stored users is taken as the new user's number. *)
NextUserIdReused(users) ==
    IF users = <<>> THEN 1 ELSE Cardinality(DOMAIN users)

(* register_user: the number in USER_{len(users) + 1:04d} *)
NextUserId(users) == Cardinality(DOMAIN users) + 1

(* EnhancedATMSystem.register_user *)
Register(pin, password) ==
    LET user_id == NextUserId(db_users)
        valid == IsValidPin(pin) /\ IsValidPassword(password)
        user == AddAccount(NewUser(user_id, pin, password), "CHECKING", 0,
                           Today(now))
    IN  /\ valid => user_id <= MaxUsers
        /\ db_users' = IF valid THEN SaveUser(db_users, user) ELSE db_users
        /\ last' = [op |-> "register",
                    outcome |-> IF valid THEN "done" ELSE "failed",
                    user_id |-> IF valid THEN user_id ELSE NoUser,
                    pin |-> pin, password |-> password,
                    returned |-> IF valid THEN user ELSE NoUser]
        /\ UNCHANGED <<now, acct, db_transactions, sessions,
                       failed_attempts, taken, streak>>

(* EnhancedATMSystem.authenticate_user *)
Authenticate(user_id, pin, password) ==
    LET lk == CheckLockout(failed_attempts, user_id, now)
        known == user_id \in DOMAIN db_users
        user == LoadUser(db_users, user_id, Today(now))
        correct == known /\ user.pin = pin
                         /\ VerifyPassword(password, user.password_hash)
        outcome == IF lk.locked THEN "locked_out"
                   ELSE IF ~known THEN "not_found"
                   ELSE IF ~correct THEN "invalid"
                   ELSE "ok"
        st == StreakOf(streak, user_id, now)
    IN  /\ failed_attempts' =
             CASE outcome = "invalid" ->
                    RecordFailedAttempt(lk.fa, user_id, now)
               [] outcome = "ok" -> ClearFailedAttempts(lk.fa, user_id)
               [] OTHER -> lk.fa
        /\ db_users' = IF outcome = "ok" THEN SaveUser(db_users, user)
                       ELSE db_users
        /\ sessions' = IF outcome = "ok"
                       THEN Put(sessions, user_id, NewSession(user, now))
                       ELSE sessions
        /\ streak' =
             CASE outcome = "invalid" ->
                    Put(streak, user_id, [n |-> st.n + 1, t |-> now])
               [] outcome = "ok" -> Put(streak, user_id, [n |-> 0, t |-> 0])
               [] OTHER -> Put(streak, user_id, st)
        /\ last' = [op |-> "authenticate", outcome |-> outcome,
                    user_id |-> user_id, correct |-> correct,
                    pin |-> pin, password |-> password]
        /\ UNCHANGED <<now, acct, db_transactions, taken>>

(* A session that sits in user_menu, waiting for a choice. *)
InMenu(user_id) == user_id \in DOMAIN sessions /\ sessions[user_id].active

(* main: the main menu is shown when no session sits in user_menu. *)
AtMainMenu == \A user_id \in DOMAIN sessions : ~sessions[user_id].active

(* user_menu, choice 8: logout *)
Logout(user_id) ==
    /\ InMenu(user_id)
    /\ sessions' = [sessions EXCEPT ![user_id].active = FALSE]
    /\ last' = [op |-> "logout", outcome |-> "done", user_id |-> user_id]
    /\ UNCHANGED <<now, acct, db_users, db_transactions, failed_attempts,
                   taken, streak>>

(* The session of user_id after a menu operation that left its user as
   `user`. *)
AfterMenu(user_id, user) ==
    Put(sessions, user_id,
        MenuLoop([sessions[user_id] EXCEPT !.user = user], now))

(* deposit_money *)
DepositMoney(user_id, choice, amount) ==
    LET user == sessions[user_id].user
        type == SelectAccount(user, choice)
        r == Deposit(user.accounts[type], amount)
        outcome == IF FLe(amount, 0) THEN "invalid_amount"
                   ELSE IF type = "NONE" THEN "no_account"
                   ELSE IF r.ok THEN "done"
                   ELSE "failed"
        user2 == IF outcome = "done" THEN WithAccount(user, type, r.acct)
                 ELSE user
    IN  /\ InMenu(user_id)
        /\ outcome = "done" =>
              FLe(r.acct.balance, MaxBalance) \/ IsNaN(r.acct.balance)
        /\ sessions' = AfterMenu(user_id, user2)
        /\ db_users' = IF outcome = "done" THEN SaveUser(db_users, user2)
                       ELSE db_users
        /\ db_transactions' =
             IF outcome = "done"
             THEN SaveTransaction(db_transactions,
                     CreateTransaction(user2, "DEPOSIT", amount, NoUser, now))
             ELSE db_transactions
        /\ last' = [op |-> "deposit", outcome |-> outcome,
                    user_id |-> user_id, type |-> type, amount |-> amount]
        /\ UNCHANGED <<now, acct, failed_attempts, taken, streak>>

(* withdraw_money *)
WithdrawMoney(user_id, choice, amount) ==
    LET user == sessions[user_id].user
        type == SelectAccount(user, choice)
        c == CanWithdraw(user.accounts[type], amount, Today(now))
        w == Withdraw(c.acct, amount, Today(now))
        outcome == IF type = "NONE" THEN "no_account"
                   ELSE IF ~c.ok THEN "rejected"
                   ELSE IF w.ok THEN "done"
                   ELSE "failed"
        user2 == CASE outcome = "no_account" -> user
                   [] outcome = "rejected" -> WithAccount(user, type, c.acct)
                   [] OTHER -> WithAccount(user, type, w.acct)
    IN  /\ InMenu(user_id)
        /\ sessions' = AfterMenu(user_id, user2)
        /\ db_users' = IF outcome = "done" THEN SaveUser(db_users, user2)
                       ELSE db_users
        /\ db_transactions' =
             IF outcome = "done"
             THEN SaveTransaction(db_transactions,
                     CreateTransaction(user2, "WITHDRAWAL", amount, NoUser,
                                       now))
             ELSE db_transactions
        /\ taken' = IF outcome = "done"
                    THEN TakeOut(taken, user_id, type, amount, Today(now))
                    ELSE taken
        /\ last' = [op |-> "withdraw", outcome |-> outcome,
                    user_id |-> user_id, type |-> type, amount |-> amount]
        /\ UNCHANGED <<now, acct, failed_attempts, streak>>

(* transfer_money *)
TransferMoney(user_id, to_user_id, choice, amount, confirm) ==
    LET user == sessions[user_id].user
        found == to_user_id \in DOMAIN db_users
        recipient == LoadUser(db_users, to_user_id, Today(now))
        type == SelectAccount(user, choice)
        c == CanWithdraw(user.accounts[type], amount, Today(now))
        w == Withdraw(c.acct, amount, Today(now))
        outcome == IF ~found THEN "not_found"
                   ELSE IF type = "NONE" THEN "no_account"
                   ELSE IF ~c.ok THEN "rejected"
                   ELSE IF confirm # "YES" THEN "cancelled"
                   ELSE IF w.ok THEN "done"
                   ELSE "failed"
        user2 == CASE outcome \in {"not_found", "no_account"} -> user
                   [] outcome \in {"rejected", "cancelled"} ->
                        WithAccount(user, type, c.acct)
                   [] OTHER -> WithAccount(user, type, w.acct)
        recipient1 == IF "CHECKING" \in DOMAIN recipient.accounts
                      THEN recipient
                      ELSE AddAccount(recipient, "CHECKING", 0, Today(now))
        d == Deposit(recipient1.accounts["CHECKING"], amount)
        recipient2 == WithAccount(recipient1, "CHECKING", d.acct)
    IN  /\ InMenu(user_id)
        /\ outcome = "done" =>
              FLe(d.acct.balance, MaxBalance) \/ IsNaN(d.acct.balance)
        /\ sessions' = AfterMenu(user_id, user2)
        /\ db_users' = IF outcome = "done"
                       THEN SaveUser(SaveUser(db_users, user2), recipient2)
                       ELSE db_users
        /\ db_transactions' =
             IF outcome = "done"
             THEN SaveTransaction(db_transactions,
                     CreateTransaction(user2, "TRANSFER", amount, to_user_id,
                                       now))
             ELSE db_transactions
        /\ taken' = IF outcome = "done"
                    THEN TakeOut(taken, user_id, type, amount, Today(now))
                    ELSE taken
        /\ last' = [op |-> "transfer", outcome |-> outcome,
                    user_id |-> user_id, type |-> type, amount |-> amount,
                    to_user_id |-> to_user_id]
        /\ UNCHANGED <<now, acct, failed_attempts, streak>>

(* Mutant: account_management adds the account without looking for one of
   its type. *)
AddAccountMenuUnguarded(user_id, type) ==
    LET user == sessions[user_id].user
        user2 == AddAccount(user, type, 0, Today(now))
    IN  /\ InMenu(user_id)
        /\ sessions' = AfterMenu(user_id, user2)
        /\ db_users' = SaveUser(db_users, user2)
        /\ last' = [op |-> "add_account", outcome |-> "done",
                    user_id |-> user_id, type |-> type]
        /\ UNCHANGED <<now, acct, db_transactions, failed_attempts, taken,
                       streak>>

(* account_management, choice 1: add a Savings or a Premium account *)
AddAccountMenu(user_id, type) ==
    LET user == sessions[user_id].user
        added == type \notin DOMAIN user.accounts
        user2 == IF added THEN AddAccount(user, type, 0, Today(now)) ELSE user
    IN  /\ InMenu(user_id)
        /\ sessions' = AfterMenu(user_id, user2)
        /\ db_users' = IF added THEN SaveUser(db_users, user2) ELSE db_users
        /\ last' = [op |-> "add_account",
                    outcome |-> IF added THEN "done" ELSE "exists",
                    user_id |-> user_id, type |-> type]
        /\ UNCHANGED <<now, acct, db_transactions, failed_attempts, taken,
                       streak>>

(* A day passes. *)
Tick ==
    /\ Today(now + SecondsPerDay) <= MaxDay
    /\ now' = now + SecondsPerDay
    /\ last' = [op |-> "tick", outcome |-> "done"]
    /\ UNCHANGED <<acct, db_users, db_transactions, sessions,
                   failed_attempts, taken, streak>>

(* The selections select_account can be given: none is asked for when the
   user holds one account; otherwise each account held, and an invalid one. *)
AccountChoices(user_id) ==
    IF ~InMenu(user_id) THEN {}
    ELSE IF Cardinality(DOMAIN sessions[user_id].user.accounts) = 1
    THEN DOMAIN sessions[user_id].user.accounts
    ELSE DOMAIN sessions[user_id].user.accounts \cup {"NONE"}

Next ==
    \/ \E pin \in Pins, password \in Passwords :
            AtMainMenu /\ Step(MaxOps) /\ Register(pin, password)
    \/ \E user_id \in UserIds \cup {UnknownUser} :
            AtMainMenu /\ Step(MaxOps)
            /\ Authenticate(user_id, GoodPin, GoodPassword)
    \/ \E user_id \in UserIds : Step(MaxOps) /\ Logout(user_id)
    \/ \E user_id \in UserIds, amount \in BankAmounts :
          \E choice \in AccountChoices(user_id) :
            Step(MaxOps) /\ DepositMoney(user_id, choice, amount)
    \/ \E user_id \in UserIds, amount \in BankAmounts :
          \E choice \in AccountChoices(user_id) :
            Step(MaxOps) /\ WithdrawMoney(user_id, choice, amount)
    \/ \E user_id \in UserIds, to_user_id \in UserIds \cup {UnknownUser},
          amount \in BankAmounts, confirm \in {"YES", "NO"} :
          \E choice \in AccountChoices(user_id) :
            Step(MaxOps)
            /\ TransferMoney(user_id, to_user_id, choice, amount, confirm)
    \/ \E user_id \in UserIds, type \in {"SAVINGS", "PREMIUM"} :
            Step(MaxOps) /\ AddAccountMenu(user_id, type)
    \/ Tick /\ UNCHANGED ops

Spec == Init /\ [][Next]_vars

-----------------------------------------------------------------------------
(* The money that leaves the accounts in a day: valid registrations and
   logins, confirmed operations of whole amounts, over longer sessions. *)

MaxDailyOps == 7

DailyAmounts == {100, 500}

NextDaily ==
    \/ AtMainMenu /\ Step(MaxDailyOps) /\ Register(GoodPin, GoodPassword)
    \/ \E user_id \in UserIds :
            AtMainMenu /\ Step(MaxDailyOps)
            /\ Authenticate(user_id, GoodPin, GoodPassword)
    \/ \E user_id \in UserIds : Step(MaxDailyOps) /\ Logout(user_id)
    \/ \E user_id \in UserIds, amount \in DailyAmounts :
          \E choice \in AccountChoices(user_id) :
            Step(MaxDailyOps) /\ DepositMoney(user_id, choice, amount)
    \/ \E user_id \in UserIds, amount \in DailyAmounts :
          \E choice \in AccountChoices(user_id) :
            Step(MaxDailyOps) /\ WithdrawMoney(user_id, choice, amount)
    \/ \E user_id \in UserIds, to_user_id \in UserIds,
          amount \in DailyAmounts :
          \E choice \in AccountChoices(user_id) :
            Step(MaxDailyOps)
            /\ TransferMoney(user_id, to_user_id, choice, amount, "YES")
    \/ Tick /\ UNCHANGED ops

SpecDaily == Init /\ [][NextDaily]_vars

-----------------------------------------------------------------------------
(* Logins with right and wrong credentials, seconds and days apart. *)

MaxOffset == 300

SecurityTickSteps == {LockoutDuration \div 2, SecondsPerDay}

(* The users that log in, and what they type: the right PIN and password,
   a wrong PIN, a wrong password. *)
SecurityUsers == {1}

Credentials ==
    {<<GoodPin, GoodPassword>>,
     <<<<"1", "2", "3">>, GoodPassword>>,
     <<GoodPin, <<"s", "h", "o", "r", "t">>>>}

(* d seconds pass. *)
SecurityTick(d) ==
    /\ Today(now + d) <= MaxDay
    /\ (now + d) % SecondsPerDay <= MaxOffset
    /\ now' = now + d
    /\ last' = [op |-> "tick", outcome |-> "done"]
    /\ UNCHANGED <<acct, db_users, db_transactions, sessions,
                   failed_attempts, taken, streak, ops>>

NextSecurity ==
    \/ AtMainMenu /\ Register(GoodPin, GoodPassword) /\ UNCHANGED ops
    \/ \E user_id \in SecurityUsers \cup {UnknownUser}, c \in Credentials :
            AtMainMenu /\ Authenticate(user_id, c[1], c[2])
            /\ UNCHANGED ops
    \/ \E user_id \in SecurityUsers : Logout(user_id) /\ UNCHANGED ops
    \/ \E d \in SecurityTickSteps : SecurityTick(d)

SpecSecurity == Init /\ [][NextSecurity]_vars

-----------------------------------------------------------------------------
(* The ledger: a DatabaseManager that loaded any stored transactions, records
   saved to it, and get_user_transactions called for any user and limit. *)

MaxLen == 3
MaxStamp == 1
MaxLimit == 2

(* A Transaction of user_id made at time t, the n-th of the ledger. *)
LedgerUsers == {1, 2}

LedgerTransaction(user_id, t, n) ==
    CreateTransaction(
        AddAccount(NewUser(user_id, GoodPin, GoodPassword), "CHECKING",
                   100 * n, Today(t)),
        "DEPOSIT", 100 * n, NoUser, t)

InitLedger ==
    /\ now = 0
    /\ acct = <<>>
    /\ last = [op |-> "new", outcome |-> "done"]
    /\ db_users = <<>>
    /\ sessions = <<>>
    /\ failed_attempts = <<>>
    /\ taken = <<>>
    /\ streak = <<>>
    /\ ops = 0
    /\ \E n \in 0 .. MaxLen :
         \E us \in [1 .. n -> LedgerUsers], ts \in [1 .. n -> 0 .. MaxStamp] :
            db_transactions =
                [i \in 1 .. n |->
                    TransactionData(LedgerTransaction(us[i], ts[i], i))]

(* session.create_transaction: save_transaction of a new record *)
LedgerSave(user_id) ==
    /\ Len(db_transactions) < MaxLen
    /\ db_transactions' =
          SaveTransaction(db_transactions,
              LedgerTransaction(user_id, now, Len(db_transactions) + 1))
    /\ last' = [op |-> "save", outcome |-> "done"]
    /\ UNCHANGED <<now, acct, db_users, sessions, failed_attempts, taken,
                   streak, ops>>

(* db_manager.get_user_transactions(user_id, limit) *)
History(user_id, limit) ==
    /\ last' = [op |-> "history", outcome |-> "done", user_id |-> user_id,
                limit |-> limit,
                result |-> GetUserTransactions(db_transactions, user_id,
                                               limit)]
    /\ UNCHANGED <<now, acct, db_users, db_transactions, sessions,
                   failed_attempts, taken, streak, ops>>

(* A second passes. *)
LedgerTick ==
    /\ now < MaxStamp
    /\ now' = now + 1
    /\ last' = [op |-> "tick", outcome |-> "done"]
    /\ UNCHANGED <<acct, db_users, db_transactions, sessions,
                   failed_attempts, taken, streak, ops>>

NextLedger ==
    \/ \E user_id \in LedgerUsers : LedgerSave(user_id)
    \/ \E user_id \in LedgerUsers \cup {UnknownUser}, limit \in 0 .. MaxLimit :
            History(user_id, limit)
    \/ LedgerTick

SpecLedger == InitLedger /\ [][NextLedger]_vars

-----------------------------------------------------------------------------
(* A user in any state of its accounts, saved and loaded again. *)

RoundTripBalances == {NaN, -100, 500}

RoundTripWithdrawn == {0, 100}

(* The states of one account of user 1. *)
RoundTripAccounts(type) ==
    {[NewAccount(<<1, EnumValue(type)>>, type, balance, last_reset_date)
        EXCEPT !.daily_withdrawn = daily_withdrawn] :
        balance \in RoundTripBalances,
        daily_withdrawn \in RoundTripWithdrawn,
        last_reset_date \in 0 .. MaxDay}

InitRoundTrip ==
    /\ now = 0
    /\ acct = <<>>
    /\ last = [op |-> "new", outcome |-> "done"]
    /\ db_users = <<>>
    /\ db_transactions = <<>>
    /\ failed_attempts = <<>>
    /\ taken = <<>>
    /\ streak = <<>>
    /\ ops = 0
    /\ \E held \in SUBSET AccountTypes :
         \E accounts \in [held -> UNION {RoundTripAccounts(type) :
                                            type \in AccountTypes}] :
            /\ \A type \in held : accounts[type].account_type = type
            /\ sessions =
                  Put(<<>>, 1,
                      NewSession([NewUser(1, GoodPin, GoodPassword)
                                    EXCEPT !.accounts = accounts], 0))

(* db_manager.save_user(user), then db_manager.load_user(user.user_id) *)
SaveAndLoad(user_id) ==
    /\ InMenu(user_id)
    /\ db_users' = SaveUser(db_users, sessions[user_id].user)
    /\ last' = [op |-> "save_and_load", outcome |-> "done",
                user_id |-> user_id,
                loaded |-> LoadUser(db_users', user_id, Today(now))]
    /\ UNCHANGED <<now, acct, db_transactions, sessions, failed_attempts,
                   taken, streak, ops>>

NextRoundTrip ==
    \/ SaveAndLoad(1)
    \/ Tick /\ UNCHANGED ops

SpecRoundTrip == InitRoundTrip /\ [][NextRoundTrip]_vars

-----------------------------------------------------------------------------
(* Registrations with well-formed and malformed PINs and passwords. *)

RegisterPins ==
    {GoodPin,
     <<"0", "0", "0", "0">>,
     <<"1", "2", "3">>,
     <<"1", "2", "3", "4", "5">>,
     <<"1", "2", "a", "4">>,
     <<>>}

RegisterPasswords ==
    {GoodPassword,
     <<"s", "e", "c", "r", "e", "t">>,
     <<"s", "h", "o", "r", "t">>,
     <<>>}

NextRegister ==
    \E pin \in RegisterPins, password \in RegisterPasswords :
        AtMainMenu /\ Register(pin, password) /\ UNCHANGED ops

SpecRegister == Init /\ [][NextRegister]_vars

-----------------------------------------------------------------------------
(* class BankUser of src/ATMSimulator.py: one object and direct calls of its
   deposit and withdraw, with any amount. *)

BankUserAmounts == {-50, -25, 100, 500}

(* BankUser.__init__ *)
NewBankUser(name, pin, password) ==
    [name |-> name, pin |-> pin, password |-> password, balance |-> 0]

(* BankUser.withdraw *)
BankUserWithdraw(user, amount) ==
    [user EXCEPT !.balance = FSub(@, amount)]

(* BankUser.deposit *)
BankUserDeposit(user, amount) ==
    [user EXCEPT !.balance = FAdd(@, amount)]

InitBankUser ==
    /\ now = 0
    /\ acct = NewBankUser("Bank User", GoodPin, GoodPassword)
    /\ last = [op |-> "new", amount |-> 0]
    /\ NoBank

BankDeposit(amount) ==
    /\ acct' = BankUserDeposit(acct, amount)
    /\ acct'.balance \in -MaxBalance .. MaxBalance
    /\ last' = [op |-> "deposit", amount |-> amount]
    /\ UNCHANGED <<now, db_users, db_transactions, sessions,
                   failed_attempts, taken, streak, ops>>

BankWithdraw(amount) ==
    /\ acct' = BankUserWithdraw(acct, amount)
    /\ acct'.balance \in -MaxBalance .. MaxBalance
    /\ last' = [op |-> "withdraw", amount |-> amount]
    /\ UNCHANGED <<now, db_users, db_transactions, sessions,
                   failed_attempts, taken, streak, ops>>

NextBankUser ==
    \/ \E amount \in BankUserAmounts : BankDeposit(amount)
    \/ \E amount \in BankUserAmounts : BankWithdraw(amount)

SpecBankUser == InitBankUser /\ [][NextBankUser]_vars

-----------------------------------------------------------------------------
(* update_profile, choices 4 and 5: one user changes PIN and password, logs
   out and logs in again.  The texts are the ones input().strip() returns. *)

MaxProfileOps == 5

OtherPin == <<"4", "3", "2", "1">>

OtherPassword == <<"s", "e", "c", "r", "e", "t", "2">>

ProfilePins == {GoodPin, OtherPin, <<"1", "2", "3">>, <<"1", "2", "a", "4">>}

ProfilePasswords == {GoodPassword, OtherPassword, <<"s", "h", "o", "r", "t">>}

(* The attributes ATMSession.__init__ sets on a session. *)
SessionAttributes ==
    {"user", "db_manager", "session_start", "active", "session_timeout"}

(* Mutant: the current PIN is not compared. *)
PinChangeOutcomeUnchecked(user, current_pin, new_pin) ==
    IF ~IsValidPin(new_pin) THEN "invalid" ELSE "done"

(* update_profile, choice 4: which branch is taken *)
PinChangeOutcome(user, current_pin, new_pin) ==
    IF current_pin # user.pin THEN "incorrect"
    ELSE IF ~IsValidPin(new_pin) THEN "invalid"
    ELSE "done"

(* update_profile, choice 4: PIN *)
ChangePin(user_id, current_pin, new_pin) ==
    LET user == sessions[user_id].user
        outcome == PinChangeOutcome(user, current_pin, new_pin)
        user2 == IF outcome = "done" THEN [user EXCEPT !.pin = new_pin]
                 ELSE user
    IN  /\ InMenu(user_id)
        /\ sessions' = AfterMenu(user_id, user2)
        /\ db_users' = IF outcome = "done" THEN SaveUser(db_users, user2)
                       ELSE db_users
        /\ db_transactions' =
             IF outcome = "done"
             THEN SaveTransaction(db_transactions,
                     CreateTransaction(user2, "PIN_CHANGE", 0, NoUser, now))
             ELSE db_transactions
        /\ last' = [op |-> "change_pin", outcome |-> outcome,
                    user_id |-> user_id, current_pin |-> current_pin,
                    new_pin |-> new_pin]
        /\ UNCHANGED <<now, acct, failed_attempts, taken, streak>>

(* update_profile, choice 5: password.  The branch reads
   session.security_manager; an attribute the session does not have raises
   AttributeError, which neither update_profile, user_menu nor main
   catches. *)
ChangePassword(user_id, current_password, new_password) ==
    LET user == sessions[user_id].user
        outcome ==
            IF "security_manager" \notin SessionAttributes THEN "raised"
            ELSE IF ~VerifyPassword(current_password, user.password_hash)
            THEN "incorrect"
            ELSE IF ~IsValidPassword(new_password) THEN "invalid"
            ELSE "done"
        user2 == IF outcome = "done"
                 THEN [user EXCEPT
                          !.password_hash = HashPassword(new_password)]
                 ELSE user
    IN  /\ InMenu(user_id)
        /\ sessions' = IF outcome = "raised" THEN sessions
                       ELSE AfterMenu(user_id, user2)
        /\ db_users' = IF outcome = "done" THEN SaveUser(db_users, user2)
                       ELSE db_users
        /\ last' = [op |-> "change_password", outcome |-> outcome,
                    user_id |-> user_id,
                    current_password |-> current_password,
                    new_password |-> new_password]
        /\ UNCHANGED <<now, acct, db_transactions, failed_attempts, taken,
                       streak>>

(* The process runs until an exception leaves main. *)
Running == last.outcome # "raised"

NextProfile ==
    \/ Running /\ AtMainMenu /\ Step(MaxProfileOps)
       /\ Register(GoodPin, GoodPassword)
    \/ \E pin \in {GoodPin, OtherPin},
          password \in {GoodPassword, OtherPassword} :
            Running /\ AtMainMenu /\ Step(MaxProfileOps)
            /\ Authenticate(1, pin, password)
    \/ Running /\ Step(MaxProfileOps) /\ Logout(1)
    \/ \E current_pin \in ProfilePins, new_pin \in ProfilePins :
            Running /\ Step(MaxProfileOps)
            /\ ChangePin(1, current_pin, new_pin)
    \/ \E current_password \in ProfilePasswords,
          new_password \in ProfilePasswords :
            Running /\ Step(MaxProfileOps)
            /\ ChangePassword(1, current_password, new_password)
    \/ Running /\ Tick /\ UNCHANGED ops

SpecProfile == Init /\ [][NextProfile]_vars

-----------------------------------------------------------------------------
(* One ATMSession on its own: is_session_valid and extend_session called
   seconds and days apart, the session deactivated as logout does it, and
   opened anew as authenticate_user does it.  last carries two ghosts:
   whether the session was deactivated by logout, and whether a call of
   is_session_valid has timed it out. *)

MaxSessionOffset == 600

SessionTickSteps == {200, SecondsPerDay}

SessionUser == AddAccount(NewUser(1, GoodPin, GoodPassword), "CHECKING", 0, 0)

InitSession ==
    /\ now = 0
    /\ acct = NewSession(SessionUser, 0)
    /\ last = [op |-> "new", valid |-> TRUE, deactivated |-> FALSE,
               expired |-> FALSE]
    /\ db_users = <<>>
    /\ db_transactions = <<>>
    /\ sessions = <<>>
    /\ failed_attempts = <<>>
    /\ taken = <<>>
    /\ streak = <<>>
    /\ ops = 0

(* authenticate_user: session = ATMSession(user, self.db_manager) *)
SessionOpen ==
    /\ acct' = NewSession(SessionUser, now)
    /\ last' = [op |-> "new", valid |-> TRUE, deactivated |-> FALSE,
                expired |-> FALSE]
    /\ UNCHANGED <<now, db_users, db_transactions, sessions,
                   failed_attempts, taken, streak, ops>>

(* session.is_session_valid() *)
SessionIsValid ==
    LET r == IsSessionValid(acct, now)
    IN  /\ acct' = r.session
        /\ last' = [last EXCEPT
                      !.op = "is_session_valid",
                      !.valid = r.valid,
                      !.expired = @ \/ (acct.active /\ ~r.session.active)]
        /\ UNCHANGED <<now, db_users, db_transactions, sessions,
                       failed_attempts, taken, streak, ops>>

(* session.extend_session() *)
SessionExtend ==
    /\ acct' = ExtendSession(acct, now)
    /\ last' = [last EXCEPT !.op = "extend_session"]
    /\ UNCHANGED <<now, db_users, db_transactions, sessions,
                   failed_attempts, taken, streak, ops>>

(* user_menu, choice 8: session.active = False *)
SessionDeactivate ==
    /\ acct' = [acct EXCEPT !.active = FALSE]
    /\ last' = [last EXCEPT !.op = "logout", !.deactivated = TRUE]
    /\ UNCHANGED <<now, db_users, db_transactions, sessions,
                   failed_attempts, taken, streak, ops>>

(* d seconds pass. *)
SessionTick(d) ==
    /\ Today(now + d) <= MaxDay
    /\ (now + d) % SecondsPerDay <= MaxSessionOffset
    /\ now' = now + d
    /\ last' = [last EXCEPT !.op = "tick"]
    /\ UNCHANGED <<acct, db_users, db_transactions, sessions,
                   failed_attempts, taken, streak, ops>>

NextSession ==
    \/ SessionOpen
    \/ SessionIsValid
    \/ SessionExtend
    \/ SessionDeactivate
    \/ \E d \in SessionTickSteps : SessionTick(d)

SpecSession == InitSession /\ [][NextSession]_vars

-----------------------------------------------------------------------------
(* Every operation of user_menu that writes to the ledger or to the stored
   users, for two users with valid credentials and whole amounts. *)

MaxMenuOps == 5

MenuUsers == {1, 2}

MenuAmounts == {100, 500}

MenuWithdrawAmounts == {0, 100, 500}

(* check_balance *)
CheckBalance(user_id) ==
    LET user == sessions[user_id].user
    IN  /\ InMenu(user_id)
        /\ sessions' = AfterMenu(user_id, user)
        /\ db_transactions' =
             SaveTransaction(db_transactions,
                 CreateTransaction(user, "BALANCE_INQUIRY", 0, NoUser, now))
        /\ last' = [op |-> "check_balance", outcome |-> "done",
                    user_id |-> user_id]
        /\ UNCHANGED <<now, acct, db_users, failed_attempts, taken, streak>>

NextMenu ==
    \/ AtMainMenu /\ Step(MaxMenuOps) /\ NextUserId(db_users) \in MenuUsers
       /\ Register(GoodPin, GoodPassword)
    \/ \E user_id \in MenuUsers, pin \in {GoodPin, OtherPin} :
            AtMainMenu /\ Step(MaxMenuOps)
            /\ Authenticate(user_id, pin, GoodPassword)
    \/ \E user_id \in MenuUsers : Step(MaxMenuOps) /\ Logout(user_id)
    \/ \E user_id \in MenuUsers : Step(MaxMenuOps) /\ CheckBalance(user_id)
    \/ \E user_id \in MenuUsers, amount \in MenuAmounts :
          \E choice \in AccountChoices(user_id) :
            Step(MaxMenuOps) /\ DepositMoney(user_id, choice, amount)
    \/ \E user_id \in MenuUsers, amount \in MenuWithdrawAmounts :
          \E choice \in AccountChoices(user_id) :
            Step(MaxMenuOps) /\ WithdrawMoney(user_id, choice, amount)
    \/ \E user_id \in MenuUsers, to_user_id \in MenuUsers,
          amount \in MenuAmounts :
          \E choice \in AccountChoices(user_id) :
            Step(MaxMenuOps)
            /\ TransferMoney(user_id, to_user_id, choice, amount, "YES")
    \/ \E user_id \in MenuUsers, type \in {"SAVINGS", "PREMIUM"} :
            Step(MaxMenuOps) /\ AddAccountMenu(user_id, type)
    \/ \E user_id \in MenuUsers, current_pin \in {GoodPin, OtherPin},
          new_pin \in {GoodPin, OtherPin} :
            Step(MaxMenuOps) /\ ChangePin(user_id, current_pin, new_pin)
    \/ Tick /\ UNCHANGED ops

SpecMenu == Init /\ [][NextMenu]_vars

-----------------------------------------------------------------------------
(* EnhancedATMSystem called as an object: authenticate_user puts each
   session into self.sessions and returns it, so that the sessions of
   several users are live at once and the menu operations are called on
   any of them. *)

MaxSharedOps == 6

SharedUsers == {1, 2}

SharedAmounts == {100}

NextShared ==
    \/ Step(MaxSharedOps) /\ NextUserId(db_users) \in SharedUsers
       /\ Register(GoodPin, GoodPassword)
    \/ \E user_id \in SharedUsers :
            Step(MaxSharedOps) /\ ~InMenu(user_id)
            /\ Authenticate(user_id, GoodPin, GoodPassword)
    \/ \E user_id \in SharedUsers : Step(MaxSharedOps) /\ Logout(user_id)
    \/ \E user_id \in SharedUsers, amount \in SharedAmounts :
          \E choice \in AccountChoices(user_id) :
            Step(MaxSharedOps) /\ DepositMoney(user_id, choice, amount)
    \/ \E user_id \in SharedUsers, amount \in SharedAmounts :
          \E choice \in AccountChoices(user_id) :
            Step(MaxSharedOps) /\ WithdrawMoney(user_id, choice, amount)
    \/ \E user_id \in SharedUsers, to_user_id \in SharedUsers,
          amount \in SharedAmounts :
          \E choice \in AccountChoices(user_id) :
            Step(MaxSharedOps)
            /\ TransferMoney(user_id, to_user_id, choice, amount, "YES")

SpecShared == Init /\ [][NextShared]_vars

-----------------------------------------------------------------------------
(* What the ledger gets from the operations on money: one customer, with
   amounts that are accepted, refused and not numbers, selections that are
   invalid, recipients that are unknown, and transfers that are cancelled
   at the confirmation. *)

MaxRecordOps == 5

RecordUsers == {1, 2}

RecordCustomers == {1}

RecordAmounts == {NaN, 0, 100, 500}

NextRecords ==
    \/ AtMainMenu /\ Step(MaxRecordOps) /\ NextUserId(db_users) \in RecordUsers
       /\ Register(GoodPin, GoodPassword)
    \/ \E user_id \in RecordCustomers :
            AtMainMenu /\ Step(MaxRecordOps)
            /\ Authenticate(user_id, GoodPin, GoodPassword)
    \/ \E user_id \in RecordCustomers : Step(MaxRecordOps) /\ Logout(user_id)
    \/ \E user_id \in RecordCustomers, amount \in RecordAmounts :
          \E choice \in AccountChoices(user_id) :
            Step(MaxRecordOps) /\ DepositMoney(user_id, choice, amount)
    \/ \E user_id \in RecordCustomers, amount \in RecordAmounts :
          \E choice \in AccountChoices(user_id) :
            Step(MaxRecordOps) /\ WithdrawMoney(user_id, choice, amount)
    \/ \E user_id \in RecordCustomers,
          to_user_id \in RecordUsers \cup {UnknownUser},
          amount \in RecordAmounts, confirm \in {"YES", "NO"} :
          \E choice \in AccountChoices(user_id) :
            Step(MaxRecordOps)
            /\ TransferMoney(user_id, to_user_id, choice, amount, confirm)
    \/ \E user_id \in RecordCustomers :
            Step(MaxRecordOps) /\ AddAccountMenu(user_id, "SAVINGS")
    \/ Tick /\ UNCHANGED ops

SpecRecords == Init /\ [][NextRecords]_vars

-----------------------------------------------------------------------------
(* Claims checked under SpecAccount. *)

(* C1: for every account, after any sequence of Account.deposit and
   Account.withdraw calls with any amounts, balance >= -overdraft_limit.
   The comparison is the one Python makes, so it is false of a NaN balance. *)
C1_BalanceWithinOverdraft ==
    FGe(acct.balance, 0 - OverdraftLimit(acct.account_type))

(* C2: Account.deposit(x) and Account.withdraw(x) with x <= 0 return false
   and leave the balance as it was, whatever the account's state. *)
C2_NonPositiveRejected ==
    [][ (last'.op \in {"deposit", "withdraw"} /\ FLe(last'.amount, 0))
        => (~last'.ok /\ acct'.balance = acct.balance) ]_vars

(* A call with an amount <= 0 has been made and has returned false. *)
C2_Witness ==
    /\ last.op \in {"deposit", "withdraw"}
    /\ FLe(last.amount, 0)
    /\ ~last.ok
    /\ acct.balance # 0

(* C9, as claimed: the first operation on the account (a deposit that is
   accepted, a withdraw or a can_withdraw) after the date has passed
   last_reset_date resets daily_withdrawn to 0 and sets last_reset_date to today; an operation on
   the date of last_reset_date resets nothing. *)
C9_ResetAtFirstOperation ==
    [][ (last'.op \in {"withdraw", "can_withdraw"}
           \/ (last'.op = "deposit" /\ last'.ok)) =>
        LET added(x) == IF last'.op = "withdraw" /\ last'.ok
                        THEN FAdd(x, last'.amount) ELSE x
        IN  IF Today(now) > acct.last_reset_date
            THEN /\ acct'.last_reset_date = Today(now)
                 /\ acct'.daily_withdrawn = added(0)
            ELSE /\ acct'.last_reset_date = acct.last_reset_date
                 /\ acct'.daily_withdrawn = added(acct.daily_withdrawn) ]_vars

(* C9, amended: the first can_withdraw or withdraw call after the date has
   passed last_reset_date resets daily_withdrawn to 0 and sets
   last_reset_date to today; a call on the date of last_reset_date resets
   nothing; deposit never touches daily_withdrawn or last_reset_date. *)
C9_ResetAtFirstWithdrawalCheck ==
    [][ /\ last'.op \in {"withdraw", "can_withdraw"} =>
            LET added(x) == IF last'.op = "withdraw" /\ last'.ok
                            THEN FAdd(x, last'.amount) ELSE x
            IN  IF Today(now) > acct.last_reset_date
                THEN /\ acct'.last_reset_date = Today(now)
                     /\ acct'.daily_withdrawn = added(0)
                ELSE /\ acct'.last_reset_date = acct.last_reset_date
                     /\ acct'.daily_withdrawn = added(acct.daily_withdrawn)
        /\ last'.op = "deposit" =>
            /\ acct'.last_reset_date = acct.last_reset_date
            /\ acct'.daily_withdrawn = acct.daily_withdrawn ]_vars

(* A withdrawal on a later day has reset the counter and then counted its
   own amount. *)
C9_Witness ==
    /\ last.op = "withdraw" /\ last.ok /\ last.reset
    /\ acct.last_reset_date = Today(now) /\ Today(now) > 0
    /\ acct.daily_withdrawn = last.amount

(* daily_withdrawn as it counts for a call made now: 0 when the date has
   passed last_reset_date. *)
WithdrawnToday ==
    IF Today(now) > acct.last_reset_date THEN 0 ELSE acct.daily_withdrawn

(* C14: Account.withdraw(amount) succeeds exactly when amount > 0,
   daily_withdrawn (after a due reset) + amount <= the daily limit and
   amount <= balance + overdraft limit; on success the balance goes down by
   amount and daily_withdrawn goes up by amount. *)
C14_WithdrawSucceedsIff ==
    [][ last'.op = "withdraw" =>
          /\ last'.ok <=>
                /\ FGt(last'.amount, 0)
                /\ FLe(FAdd(WithdrawnToday, last'.amount),
                       DailyLimit(acct.account_type))
                /\ FLe(last'.amount,
                       FAdd(acct.balance, OverdraftLimit(acct.account_type)))
          /\ last'.ok =>
                /\ FEq(acct'.balance, FSub(acct.balance, last'.amount))
                /\ FEq(acct'.daily_withdrawn,
                       FAdd(WithdrawnToday, last'.amount)) ]_vars

(* C15: can_withdraw reports the first check that fails, in the order
   invalid amount, daily limit exceeded, insufficient funds, and OK when
   none fails; an amount that takes daily_withdrawn above the daily limit is
   rejected for the daily limit whatever the balance; a rejection leaves the
   balance as it was. *)
C15_FirstFailingCheck ==
    [][ last'.op = "can_withdraw" =>
          LET invalid == FLe(last'.amount, 0)
              daily == FGt(FAdd(WithdrawnToday, last'.amount),
                           DailyLimit(acct.account_type))
              funds == FGt(last'.amount,
                           FAdd(acct.balance,
                                OverdraftLimit(acct.account_type)))
          IN  /\ invalid => last'.msg = "Invalid amount"
              /\ (~invalid /\ daily)
                    => last'.msg = "Daily withdrawal limit exceeded"
              /\ (~invalid /\ ~daily /\ funds)
                    => last'.msg = "Insufficient funds"
              /\ (~invalid /\ ~daily /\ ~funds) => last'.msg = "OK"
              /\ last'.ok <=> last'.msg = "OK"
              /\ ~last'.ok => acct'.balance = acct.balance ]_vars

(* can_withdraw has rejected, for the daily limit, an amount that the
   balance and the overdraft do not cover either. *)
C15_Witness ==
    /\ last.op = "can_withdraw"
    /\ last.msg = "Daily withdrawal limit exceeded"
    /\ FGt(last.amount,
           FAdd(acct.balance, OverdraftLimit(acct.account_type)))
    /\ acct.balance = 500

-----------------------------------------------------------------------------
(* Claims checked under Spec and SpecDaily. *)

(* The balance of the account a menu operation of user_id works on, as the
   session holds it. *)
SourceBalance(ss, user_id, type) ==
    IF type \in DOMAIN ss[user_id].user.accounts
    THEN ss[user_id].user.accounts[type].balance
    ELSE 0

(* The Checking balance stored for user_id. *)
PersistedChecking(users, user_id) ==
    IF user_id \in DOMAIN users
    THEN users[user_id].accounts[EnumValue("CHECKING")].balance
    ELSE 0

(* C3: whatever way transfer_money returns, either the sender's source
   balance went down by amount and the recipient's stored Checking balance
   went up by amount, or neither balance changed. *)
C3_TransferAllOrNothing ==
    [][ last'.op = "transfer" =>
          LET s0 == SourceBalance(sessions, last'.user_id, last'.type)
              s1 == SourceBalance(sessions', last'.user_id, last'.type)
              r0 == PersistedChecking(db_users, last'.to_user_id)
              r1 == PersistedChecking(db_users', last'.to_user_id)
          IN  \/ /\ FEq(s1, FSub(s0, last'.amount))
                 /\ FEq(r1, FAdd(r0, last'.amount))
              \/ s1 = s0 /\ r1 = r0 ]_vars

(* C4: a confirmed transfer of a number amount from B to C that passes
   can_withdraw takes amount from B's source balance, adds it to C's Checking
   balance, stores both users as they then are, and appends one Transfer
   record, of user B with to_user C, and no other record. *)
C4_ConfirmedTransfer ==
    [][ (last'.op = "transfer" /\ last'.outcome = "done"
         /\ ~IsNaN(last'.amount)) =>
          LET B == last'.user_id
              C == last'.to_user_id
              s0 == SourceBalance(sessions, B, last'.type)
              s1 == SourceBalance(sessions', B, last'.type)
              r0 == PersistedChecking(db_users, C)
              r1 == PersistedChecking(db_users', C)
              n == Len(db_transactions)
          IN  /\ FEq(s1, FSub(s0, last'.amount))
              /\ FEq(r1, FAdd(r0, last'.amount))
              /\ db_users'[B] = UserData(sessions'[B].user)
              /\ Len(db_transactions') = n + 1
              /\ SubSeq(db_transactions', 1, n) = db_transactions
              /\ db_transactions'[n + 1].user_id = B
              /\ db_transactions'[n + 1].to_user = C
              /\ db_transactions'[n + 1].transaction_type =
                    TransactionTypeValue("TRANSFER")
        ]_vars

(* C19: under a session whose session_start is more than 300 seconds old,
   no menu operation is executed: the stored users, the ledger and the
   session's user stay as they were. *)
C19_IdleSessionRejected ==
    [][ (/\ last'.op \in {"deposit", "withdraw", "transfer", "add_account"}
         /\ now - sessions[last'.user_id].session_start > SessionTimeout)
        => /\ db_users' = db_users
           /\ db_transactions' = db_transactions
           /\ sessions'[last'.user_id].user = sessions[last'.user_id].user
      ]_vars

(* C20: when a mutating operation has returned as done, the stored record
   of the session's user is the record of the user as the session holds
   it. *)
C20_WriteThrough ==
    [][ (/\ last'.op \in {"deposit", "withdraw", "transfer", "add_account"}
         /\ last'.outcome = "done")
        => db_users'[last'.user_id] = UserData(sessions'[last'.user_id].user)
      ]_vars

(* C26: the transaction_ids of the ledger are pairwise distinct. *)
C26_TransactionIdsDistinct ==
    \A i, j \in 1 .. Len(db_transactions) :
        i # j => db_transactions[i].transaction_id
                    # db_transactions[j].transaction_id

(* C7: every account, held by a session or stored, has
   daily_withdrawn <= its daily withdrawal limit. *)
C7_DailyWithdrawnWithinLimit ==
    /\ \A user_id \in DOMAIN sessions :
         \A type \in DOMAIN sessions[user_id].user.accounts :
            FLe(sessions[user_id].user.accounts[type].daily_withdrawn,
                DailyLimit(type))
    /\ \A user_id \in DOMAIN db_users :
         \A v \in DOMAIN db_users[user_id].accounts :
            FLe(db_users[user_id].accounts[v].daily_withdrawn,
                DailyLimit(EnumMember(v)))

(* C8: the amounts taken out of an account on one day, by withdrawals and
   by outgoing transfers, over all the sessions of the day, add up to no
   more than the account's daily withdrawal limit. *)
C8_TakenOutWithinDailyLimit ==
    \A k \in DOMAIN taken : ~FGt(taken[k].total, DailyLimit(k[2]))

-----------------------------------------------------------------------------
(* Claims checked under SpecSecurity. *)

(* C5: once three authentications in a row have failed for a user_id, every
   authenticate_user call for it made less than 300 seconds after the third
   failure returns no session, right PIN and password or not. *)
C5_LockedOutAfterThreeFailures ==
    [][ (/\ last'.op = "authenticate"
         /\ last'.user_id \in DOMAIN streak
         /\ streak[last'.user_id].n >= MaxAttempts
         /\ now - streak[last'.user_id].t < LockoutDuration)
        => (last'.outcome # "ok" /\ sessions' = sessions) ]_vars

C5_Witness ==
    /\ last.op = "authenticate"
    /\ last.correct
    /\ last.outcome = "locked_out"
    /\ streak[last.user_id].n >= MaxAttempts
    /\ now - streak[last.user_id].t < LockoutDuration
    /\ AtMainMenu

(* C6: check_lockout, as authenticate_user calls it, returns true exactly
   when the user_id has 3 or more recorded failures, the last of them less
   than 300 seconds ago; with 3 or more failures and the 300 seconds over,
   the record is removed, so that the attempt is judged on its credentials
   and a failure is counted as the first. *)
C6_LockedOutIffWithinWindow ==
    [][ last'.op = "authenticate" =>
          LET u == last'.user_id
              counted == u \in DOMAIN failed_attempts
                         /\ failed_attempts[u].attempts >= MaxAttempts
              elapsed == now - failed_attempts[u].last_attempt
          IN  /\ (last'.outcome = "locked_out")
                    <=> (counted /\ elapsed < LockoutDuration)
              /\ (counted /\ elapsed >= LockoutDuration)
                    => \/ u \notin DOMAIN failed_attempts'
                       \/ failed_attempts'[u].attempts = 1 ]_vars

(* C24: an authenticate_user call for a user with 3 or more recorded
   failures, the last of them less than 300 seconds ago, changes no state:
   the failure count and the time of the last failure, the sessions, the
   stored users and the ledger are as before. *)
C24_LockedOutAttemptChangesNothing ==
    [][ (/\ last'.op = "authenticate"
         /\ last'.user_id \in DOMAIN failed_attempts
         /\ failed_attempts[last'.user_id].attempts >= MaxAttempts
         /\ now - failed_attempts[last'.user_id].last_attempt
                < LockoutDuration)
        => /\ last'.outcome = "locked_out"
           /\ failed_attempts' = failed_attempts
           /\ sessions' = sessions
           /\ db_users' = db_users
           /\ db_transactions' = db_transactions ]_vars

(* An attempt with the right PIN and password is turned away 150 seconds
   into the lockout; the three failures still carry their own time. *)
C24_Witness ==
    /\ last.op = "authenticate"
    /\ last.outcome = "locked_out"
    /\ last.pin = GoodPin
    /\ last.password = GoodPassword
    /\ failed_attempts[last.user_id].attempts = MaxAttempts
    /\ now - failed_attempts[last.user_id].last_attempt
            = LockoutDuration \div 2
    /\ sessions = <<>>

-----------------------------------------------------------------------------
(* Claims checked under SpecLedger. *)

(* The ways of reading the records of a result off the ledger, each record
   from a place of its own. *)
Placings(result, transactions) ==
    {f \in [1 .. Len(result) -> 1 .. Len(transactions)] :
        /\ \A i \in 1 .. Len(result) :
              TransactionOf(transactions[f[i]]) = result[i]
        /\ \A i, j \in 1 .. Len(result) : i # j => f[i] # f[j]}

(* C10: get_user_transactions(user_id, limit) with limit >= 0 returns at
   most limit records, all of them records of user_id, with timestamps
   descending and equal timestamps in the order of insertion, and no record
   of the user that is left out is more recent than one returned; it leaves
   records out only when limit is reached. *)
C10_HistoryNewestFirst ==
    last.op = "history" =>
        LET r == last.result
            mine == {i \in 1 .. Len(db_transactions) :
                        db_transactions[i].user_id = last.user_id}
        IN  /\ Len(r) <= last.limit
            /\ Len(r) = IF Cardinality(mine) < last.limit
                        THEN Cardinality(mine) ELSE last.limit
            /\ \A i \in 1 .. Len(r) : r[i].user_id = last.user_id
            /\ \A i, j \in 1 .. Len(r) :
                  i < j => r[i].timestamp >= r[j].timestamp
            /\ \E f \in Placings(r, db_transactions) :
                  /\ \A i, j \in 1 .. Len(r) :
                        (i < j /\ r[i].timestamp = r[j].timestamp)
                            => f[i] < f[j]
                  /\ \A k \in mine \ {f[i] : i \in 1 .. Len(r)} :
                        \A i \in 1 .. Len(r) :
                            FromIsoFormat(db_transactions[k].timestamp)
                                <= r[i].timestamp

C10_Witness ==
    /\ last.op = "history"
    /\ last.limit = 1
    /\ Len(last.result) = 1
    /\ \E i, j \in 1 .. Len(db_transactions) :
          /\ i < j
          /\ db_transactions[i].user_id = last.user_id
          /\ db_transactions[j].user_id = last.user_id
          /\ FromIsoFormat(db_transactions[i].timestamp)
                < FromIsoFormat(db_transactions[j].timestamp)
          /\ TransactionOf(db_transactions[j]) = last.result[1]
    /\ \E k \in 1 .. Len(db_transactions) :
          db_transactions[k].user_id # last.user_id

-----------------------------------------------------------------------------
(* Claims checked under SpecRoundTrip. *)

(* C11: save_user(user) followed by load_user(user.user_id) yields a user
   with the same account types and, for each account, the same balance,
   daily_withdrawn and last_reset_date (a NaN is loaded as the NaN that was
   saved). *)
C11_SaveLoadRoundTrip ==
    last.op = "save_and_load" =>
        LET user == sessions[last.user_id].user
        IN  /\ DOMAIN last.loaded.accounts = DOMAIN user.accounts
            /\ \A type \in DOMAIN user.accounts :
                  /\ last.loaded.accounts[type].balance
                        = user.accounts[type].balance
                  /\ last.loaded.accounts[type].daily_withdrawn
                        = user.accounts[type].daily_withdrawn
                  /\ last.loaded.accounts[type].last_reset_date
                        = user.accounts[type].last_reset_date

(* A user with two accounts, one with money withdrawn today, one last reset
   on another day than the day of loading, has been saved and loaded. *)
C11_Witness ==
    /\ last.op = "save_and_load"
    /\ Cardinality(DOMAIN last.loaded.accounts) = 2
    /\ \E type \in DOMAIN last.loaded.accounts :
          last.loaded.accounts[type].daily_withdrawn > 0
    /\ \E type \in DOMAIN last.loaded.accounts :
          last.loaded.accounts[type].last_reset_date # Today(now)

-----------------------------------------------------------------------------
(* Claims checked under SpecRegister. *)

(* A PIN of exactly 4 digits and a password of 6 characters or more. *)
WellFormed(pin, password) ==
    /\ Len(pin) = 4
    /\ \A i \in 1 .. Len(pin) :
          pin[i] \in {"0", "1", "2", "3", "4", "5", "6", "7", "8", "9"}
    /\ Len(password) >= 6

(* C12: register_user with a PIN of exactly 4 digits and a password of 6
   characters or more succeeds, and the user it returns and the user it
   stores hold one account, a Checking account with balance 0 and
   daily_withdrawn 0. *)
C12_RegisterProvisionsChecking ==
    [][ (last'.op = "register" /\ WellFormed(last'.pin, last'.password)) =>
          /\ last'.outcome = "done"
          /\ DOMAIN last'.returned.accounts = {"CHECKING"}
          /\ last'.returned.accounts["CHECKING"].balance = 0
          /\ last'.returned.accounts["CHECKING"].daily_withdrawn = 0
          /\ last'.user_id \in DOMAIN db_users'
          /\ DOMAIN db_users'[last'.user_id].accounts = {"checking"}
          /\ db_users'[last'.user_id].accounts["checking"].balance = 0
          /\ db_users'[last'.user_id].accounts["checking"].daily_withdrawn
                = 0 ]_vars

(* A second user has registered, with a password of 6 characters. *)
C12_Witness ==
    /\ last.op = "register"
    /\ last.outcome = "done"
    /\ last.user_id = 2
    /\ Len(last.password) = 6
    /\ DOMAIN db_users[2].accounts = {"checking"}

(* C13: register_user returns no user when the PIN is not exactly 4 digits
   or the password has fewer than 6 characters, and then stores nothing: the
   stored users, and with them the next user_id, are as before. *)
C13_RegisterRejectsMalformed ==
    [][ (last'.op = "register" /\ ~WellFormed(last'.pin, last'.password)) =>
          /\ last'.outcome = "failed"
          /\ last'.returned = NoUser
          /\ db_users' = db_users
          /\ Cardinality(DOMAIN db_users') = Cardinality(DOMAIN db_users)
        ]_vars

(* A registration with a PIN of 4 characters that are not all digits has
   failed, one user being stored. *)
C13_Witness ==
    /\ last.op = "register"
    /\ last.outcome = "failed"
    /\ Len(last.pin) = 4
    /\ Len(last.password) >= 6
    /\ DOMAIN db_users = {1}

(* C16: authenticate_user returns a session exactly when the user is not
   locked out, the user exists, the PIN is the stored PIN and the password
   hashes to the stored hash; a locked-out user is turned away before its
   existence and credentials are looked at; a failed attempt is recorded
   exactly when an existing, not locked-out user gives a wrong PIN or a
   wrong password, and never for a locked-out or an unknown user. *)
C16_SessionIffAllChecksPass ==
    [][ last'.op = "authenticate" =>
          LET u == last'.user_id
              locked == CheckLockout(failed_attempts, u, now).locked
              exists == u \in DOMAIN db_users
              pin_ok == db_users[u].pin = last'.pin
              password_ok ==
                  db_users[u].password_hash
                    = <<"sha256", last'.password, "atm_security_salt_2023">>
              good == ~locked /\ exists /\ pin_ok /\ password_ok
              bad == ~locked /\ exists /\ ~(pin_ok /\ password_ok)
              n == IF u \in DOMAIN failed_attempts /\ ~locked
                      /\ failed_attempts[u].attempts < MaxAttempts
                   THEN failed_attempts[u].attempts ELSE 0
          IN  /\ (last'.outcome = "ok") <=> good
              /\ good => /\ u \in DOMAIN sessions'
                         /\ sessions'[u].active
                         /\ sessions'[u].user.user_id = u
                         /\ u \notin DOMAIN failed_attempts'
              /\ ~good => sessions' = sessions
              /\ locked => last'.outcome = "locked_out"
              /\ bad => /\ u \in DOMAIN failed_attempts'
                        /\ failed_attempts'[u].attempts = n + 1
                        /\ failed_attempts'[u].last_attempt = now
              /\ (locked \/ ~exists) => failed_attempts' = failed_attempts
        ]_vars

(* A login with the right PIN and a wrong password has failed and has been
   counted as the second failure. *)
C16_Witness ==
    /\ last.op = "authenticate"
    /\ last.outcome = "invalid"
    /\ last.pin = GoodPin
    /\ last.password # GoodPassword
    /\ failed_attempts[last.user_id].attempts = 2

-----------------------------------------------------------------------------
(* Claims checked under SpecBankUser. *)

(* C17: BankUser.deposit and BankUser.withdraw with a negative amount
   leave the balance as it was. *)
C17_NegativeAmountIgnored ==
    [][ (last'.op \in {"deposit", "withdraw"} /\ last'.amount < 0)
        => acct'.balance = acct.balance ]_vars

(* C18: BankUser.withdraw of more than the balance leaves the balance as it
   was. *)
C18_OverdrawRefused ==
    [][ (last'.op = "withdraw" /\ last'.amount > acct.balance)
        => acct'.balance = acct.balance ]_vars

-----------------------------------------------------------------------------
(* Claims checked under SpecProfile. *)

FourDigits(pin) == Len(pin) = 4 /\ \A i \in 1 .. 4 : pin[i] \in Digits

(* C21: a PIN change succeeds iff the current PIN given equals the stored
   PIN and the new PIN is exactly 4 digits; on success the new PIN is
   persisted and exactly one pin_change record of amount 0 is appended to
   the ledger; on failure the PIN, the stored users and the ledger are
   unchanged. *)
C21_PinChange ==
    [][ last'.op = "change_pin" =>
        LET u == last'.user_id
            ok == /\ last'.current_pin = db_users[u].pin
                  /\ FourDigits(last'.new_pin)
            n == Len(db_transactions)
        IN  /\ (last'.outcome = "done") <=> ok
            /\ ok => /\ db_users'[u].pin = last'.new_pin
                     /\ sessions'[u].user.pin = last'.new_pin
                     /\ Len(db_transactions') = n + 1
                     /\ SubSeq(db_transactions', 1, n) = db_transactions
                     /\ db_transactions'[n + 1].transaction_type
                            = "pin_change"
                     /\ db_transactions'[n + 1].amount = 0
                     /\ db_transactions'[n + 1].user_id = u
            /\ ~ok => /\ sessions'[u].user.pin = sessions[u].user.pin
                      /\ db_users' = db_users
                      /\ db_transactions' = db_transactions
      ]_vars

(* A PIN change to another PIN went through: the new PIN is stored and the
   ledger holds the one record of it. *)
C21_Witness ==
    /\ last.op = "change_pin"
    /\ last.outcome = "done"
    /\ last.new_pin = OtherPin
    /\ db_users[1].pin = OtherPin
    /\ Len(db_transactions) = 1

(* C22: a password change with the right current password and a new
   password of at least 6 characters stores the new hash; with a wrong
   current password or a shorter new password the stored hash is unchanged;
   in every case the operation ends in a reported result and does not
   raise. *)
C22_PasswordChange ==
    [][ last'.op = "change_password" =>
        LET u == last'.user_id
            ok == /\ HashPassword(last'.current_password)
                        = db_users[u].password_hash
                  /\ Len(last'.new_password) >= 6
        IN  /\ last'.outcome # "raised"
            /\ ok => db_users'[u].password_hash
                        = HashPassword(last'.new_password)
            /\ ~ok => db_users'[u].password_hash
                        = db_users[u].password_hash
      ]_vars

-----------------------------------------------------------------------------
(* Claims checked under SpecSession. *)

(* C25: is_session_valid returns false iff the session was deactivated (by
   logout, or by a call that timed it out) or more than 300 seconds have
   passed since session_start, whatever the time passed; when it times the
   session out it sets active to false, and a session that was timed out
   is not valid again, also after extend_session. *)
C25_ValidIffActiveAndFresh ==
    [][ last'.op = "is_session_valid" =>
        LET elapsed == now - acct.session_start
        IN  /\ (~last'.valid)
                 <=> (last.deactivated \/ last.expired
                      \/ elapsed > SessionTimeout)
            /\ elapsed > SessionTimeout => ~acct'.active
            /\ last.expired => ~last'.valid
      ]_vars

-----------------------------------------------------------------------------
(* Claims checked under SpecMenu. *)

(* C27: the ledger is append-only: in every step the stored sequence of
   transactions stays as it is or gets one record at its end; no record
   is modified, moved or removed. *)
C27_LedgerAppendOnly ==
    [][ \/ db_transactions' = db_transactions
        \/ /\ Len(db_transactions') = Len(db_transactions) + 1
           /\ SubSeq(db_transactions', 1, Len(db_transactions))
                = db_transactions
      ]_vars

(* A second record, of another kind, was put behind the first. *)
C27_Witness ==
    /\ Len(db_transactions) = 2
    /\ db_transactions[1].transaction_type = "deposit"
    /\ db_transactions[2].transaction_type = "balance_inquiry"
    /\ last.op = "check_balance"

(* C28: the balance_after of a record that is appended is the balance of
   the Checking account of the session's user as the operation left it,
   whichever account the operation changed. *)
C28_BalanceAfterIsChecking ==
    [][ Len(db_transactions') = Len(db_transactions) + 1 =>
        LET d == db_transactions'[Len(db_transactions')]
        IN  /\ d.user_id = last'.user_id
            /\ d.balance_after
                 = sessions'[d.user_id].user.accounts["CHECKING"].balance
      ]_vars

(* A deposit of 500 into Savings was recorded with the Checking balance. *)
C28_Witness ==
    /\ last.op = "deposit"
    /\ last.outcome = "done"
    /\ last.type = "SAVINGS"
    /\ LET d == db_transactions[Len(db_transactions)]
           user == sessions[last.user_id].user
       IN  /\ d.amount = 500
           /\ d.balance_after = 100
           /\ user.accounts["CHECKING"].balance = 100
           /\ user.accounts["SAVINGS"].balance = 500

(* C29: a successful registration allocates a user_id that no stored user
   has and leaves every stored record as it was; and in every step each
   stored user stays stored, under its user_id. *)
C29_FreshUserId ==
    [][ /\ (last'.op = "register" /\ last'.outcome = "done")
           => /\ last'.user_id \notin DOMAIN db_users
              /\ last'.returned.user_id = last'.user_id
              /\ db_users'[last'.user_id].user_id = last'.user_id
              /\ \A u \in DOMAIN db_users : db_users'[u] = db_users[u]
        /\ \A u \in DOMAIN db_users :
              /\ u \in DOMAIN db_users'
              /\ db_users'[u].user_id = u
        /\ \A u \in DOMAIN sessions' : sessions'[u].user.user_id = u
      ]_vars

(* A second user registered after the first had deposited 100 and logged
   out; the first user's record still holds the 100. *)
C29_Witness ==
    /\ last.op = "register"
    /\ last.outcome = "done"
    /\ last.user_id = 2
    /\ DOMAIN db_users = {1, 2}
    /\ db_users[1].accounts["checking"].balance = 100
    /\ db_users[2].accounts["checking"].balance = 0

(* C30: a user holds at most one account of a type, each under its own
   type; and a request to account management for an account of a type the
   user holds is rejected and leaves the user's accounts and the stored
   users as they were. *)
C30_NoSecondAccountOfAType ==
    [][ /\ \A u \in DOMAIN sessions' :
              \A type \in DOMAIN sessions'[u].user.accounts :
                 /\ type \in AccountTypes
                 /\ sessions'[u].user.accounts[type].account_type = type
                 /\ sessions'[u].user.accounts[type].account_id
                       = <<u, EnumValue(type)>>
        /\ (/\ last'.op = "add_account"
            /\ last'.type \in DOMAIN sessions[last'.user_id].user.accounts)
           => /\ last'.outcome = "exists"
              /\ sessions'[last'.user_id].user.accounts
                    = sessions[last'.user_id].user.accounts
              /\ db_users' = db_users
      ]_vars

(* A second Premium account was asked for and refused; the one held keeps
   its balance of -100 and its 100 withdrawn today. *)
C30_Witness ==
    /\ last.op = "add_account"
    /\ last.outcome = "exists"
    /\ last.type = "PREMIUM"
    /\ LET a == sessions[last.user_id].user.accounts["PREMIUM"]
       IN  a.balance = -100 /\ a.daily_withdrawn = 100

(* C23, as stated: a rejected withdrawal changes nothing: the accounts of
   the session's user, the stored users and the ledger are as before the
   call. *)
C23_RejectedWithdrawalNoMutation ==
    [][ (last'.op = "withdraw" /\ last'.outcome \in {"rejected", "failed"})
        => /\ sessions'[last'.user_id].user = sessions[last'.user_id].user
           /\ db_users' = db_users
           /\ db_transactions' = db_transactions
      ]_vars

(* C23, amended: a rejected withdrawal leaves the balance, the other
   accounts, the stored users and the ledger as before the call;
   daily_withdrawn and last_reset_date are as before when last_reset_date
   is today or later, and are 0 and today when it is an earlier day. *)
C23_RejectedWithdrawalKeepsBalance ==
    [][ (last'.op = "withdraw" /\ last'.outcome \in {"rejected", "failed"})
        => LET u == last'.user_id
               before == sessions[u].user
               after == sessions'[u].user
               a == before.accounts[last'.type]
               b == after.accounts[last'.type]
           IN  /\ db_users' = db_users
               /\ db_transactions' = db_transactions
               /\ after.pin = before.pin
               /\ after.password_hash = before.password_hash
               /\ DOMAIN after.accounts = DOMAIN before.accounts
               /\ \A type \in DOMAIN before.accounts \ {last'.type} :
                      after.accounts[type] = before.accounts[type]
               /\ b.balance = a.balance
               /\ b.account_id = a.account_id
               /\ IF Today(now) > a.last_reset_date
                  THEN b.daily_withdrawn = 0 /\ b.last_reset_date = Today(now)
                  ELSE /\ b.daily_withdrawn = a.daily_withdrawn
                       /\ b.last_reset_date = a.last_reset_date
      ]_vars

(* A withdrawal was rejected on the day after one of 100 went through: the
   session's account has its counter reset, the stored one has not. *)
C23_Witness ==
    /\ last.op = "withdraw"
    /\ last.outcome = "rejected"
    /\ LET a == sessions[last.user_id].user.accounts[last.type]
           d == db_users[last.user_id].accounts[EnumValue(last.type)]
       IN  /\ a.daily_withdrawn = 0
           /\ a.last_reset_date = Today(now)
           /\ d.daily_withdrawn = 100
           /\ FromIsoFormat(d.last_reset_date) < Today(now)

(* The sum of the balances of the accounts of the stored users. *)
RECURSIVE SumBalances(_, _)
SumBalances(users, keys) ==
    IF keys = {} THEN 0
    ELSE LET k == CHOOSE key \in keys : TRUE
         IN  users[k[1]].accounts[k[2]].balance
               + SumBalances(users, keys \ {k})

StoredTotal(users) ==
    SumBalances(users,
        UNION {{<<u, v>> : v \in DOMAIN users[u].accounts} :
                   u \in DOMAIN users})

(* C31: only deposits and withdrawals change the sum of the stored
   balances of all users; a confirmed transfer, to any recipient, the
   sender included, leaves it as it was. *)
C31_TransfersConserveMoney ==
    [][ last'.op \notin {"deposit", "withdraw"}
        => StoredTotal(db_users') = StoredTotal(db_users) ]_vars

-----------------------------------------------------------------------------
(* Claims checked under SpecShared. *)

(* C32: when the sender and the recipient of a confirmed transfer both hold
   a live session, and the recipient's session then makes a deposit into
   Checking, the stored Checking balance of the recipient goes up by the
   deposit: the credit of the transfer is still in it. *)
C32_CreditSurvivesRecipientOperation ==
    [][ (/\ last.op = "transfer"
         /\ last.outcome = "done"
         /\ last.to_user_id # last.user_id
         /\ InMenu(last.user_id)
         /\ InMenu(last.to_user_id)
         /\ last'.op = "deposit"
         /\ last'.outcome = "done"
         /\ last'.user_id = last.to_user_id
         /\ last'.type = "CHECKING")
        => db_users'[last'.user_id].accounts["checking"].balance
             = db_users[last'.user_id].accounts["checking"].balance
                 + last'.amount
      ]_vars

-----------------------------------------------------------------------------
(* Claims checked under SpecRecords. *)

(* The kind of record that an operation appends. *)
KindOf(op) ==
    CASE op = "deposit"  -> "deposit"
      [] op = "withdraw" -> "withdrawal"
      [] op = "transfer" -> "transfer"

(* C33: a deposit, a withdrawal or a transfer that went through appends
   exactly one record, of its kind, with the user_id of the session's user
   and the amount of the operation, in a step that has written that user
   to the store (for a transfer to oneself the store holds the credited
   copy of the user, written after it); one that was rejected, invalid or
   cancelled leaves the ledger as it was. *)
C33_OneRecordPerOperation ==
    [][ last'.op \in {"deposit", "withdraw", "transfer"} =>
        LET u == last'.user_id
            n == Len(db_transactions)
        IN  IF last'.outcome = "done"
            THEN /\ Len(db_transactions') = n + 1
                 /\ SubSeq(db_transactions', 1, n) = db_transactions
                 /\ db_transactions'[n + 1].transaction_type
                        = KindOf(last'.op)
                 /\ db_transactions'[n + 1].user_id = u
                 /\ db_transactions'[n + 1].amount = last'.amount
                 /\ u \in DOMAIN db_users'
                 /\ \/ db_users'[u] = UserData(sessions'[u].user)
                    \/ last'.op = "transfer" /\ last'.to_user_id = u
            ELSE db_transactions' = db_transactions
      ]_vars

(* A transfer of 100 was cancelled at the confirmation after a deposit of
   100 had been recorded: the ledger holds the one record of the deposit. *)
C33_Witness ==
    /\ last.op = "transfer"
    /\ last.outcome = "cancelled"
    /\ Len(db_transactions) = 1
    /\ db_transactions[1].transaction_type = "deposit"
    /\ db_transactions[1].amount = 100
    /\ db_transactions[1].user_id = last.user_id

=============================================================================
